---- MODULE Spec2Model ----
(***************************************************************************)
(* State-machine model of the observational-astronomy lab scripts:         *)
(*   astroExercises/Exercise 1/obsastro_quasar_module.py                   *)
(*       background, centroid_peak / get_centroid_locations, calibration   *)
(*   astroExercises/Exercise 3/astrometryExercise.py                       *)
(*       polyxenaPlot (polyxenaDisplay), polyxenaPlotCentres               *)
(*       (polyxenaDisplayGrid)                                             *)
(* Real numbers are exact rationals <<num, den>> (den > 0, lowest terms);  *)
(* numpy arrays are functions over 0..len-1.                               *)
(***************************************************************************)
EXTENDS Integers, Sequences, FiniteSets, TLC

VARIABLES
    \* ---- background(image, y1, y2, y3, y4) ----
    shape,      \* image.shape = <<rows, columns>>
    dtype,      \* image.dtype: "float" or "int"
    image,      \* image[r][c], integer pixel values
    ys,         \* <<y1, y2, y3, y4>>
    bg_pc,      \* "call", "loop", "returned", "InputError", "IndexError", "TypeError"
    col,        \* loop variable of `for col in range(N)`
    bkg_array,  \* <<>> until np.zeros_like(image); then bkg_array[r][c], rationals
    colsRead,   \* column indices of image the last iteration indexed
    column,     \* the local `column` of the last iteration (a sequence), <<>> if none
    bkg,        \* the local `bkg` of the last iteration (a sequence)
    \* ---- get_centroid_locations(pix, spectrum) ----
    spectrum,   \* the 1D spectrum, spectrum[i] for i in 0..len-1
    pix,        \* the approximate positions (rationals)
    cen_pc,     \* "call", "loop", "returned", "IndexError", "RuntimeError"
    line,       \* number of entries of pix already refined
    centre,     \* int(p) of the last centroid_peak call
    x_zoom,     \* its window of x (a sequence of sample indices)
    y_zoom,     \* its window of y
    p0,         \* its initial guess <<H, A, x0, sigma>>, <<>> if none
    pix_refined, \* the list being built
    \* ---- calibration(pix_refined, wav, pix_axis) ----
    cal_pix,    \* argument pix_refined
    wav,        \* argument wav
    pix_axis,   \* argument pix_axis
    cal_pc,     \* "call", "returned", "TypeError"
    wav_axis,   \* the returned axis
    wav2,       \* the local wav2 (back-predicted wavelengths)
    RMS2,       \* the square of the local RMS
    \* ---- polyxenaPlot / polyxenaDisplay: the click history ----
    divX,       \* divX.text, a sequence of tokens (numbers and separators)
    divY,       \* divY.text
    taps,       \* history: the DoubleTap events so far, <<x, y>> in thousandths
    \* ---- polyxenaPlot / polyxenaDisplay: the colour range ----
    color_mapper, \* [low, high]
    cbim,       \* the RangeSlider: [start, end, value]
    minCB,      \* minCB.value, a sequence of characters
    maxCB,      \* maxCB.value
    \* ---- polyxenaPlotCentres / polyxenaDisplayGrid ----
    globals,    \* module globals r_1, r_2, ...: globals[i] is the document whose
                \* renderer the name r_i is bound to, 0 when r_i is undefined
    docs        \* one record per call of polyxenaDisplayGrid: its xcoors and
                \* ycoors lengths, its color_mapper and its slider value

bgVars == <<shape, dtype, image, ys, bg_pc, col, bkg_array, colsRead, column, bkg>>
cenVars == <<spectrum, pix, cen_pc, line, centre, x_zoom, y_zoom, p0, pix_refined>>
calVars == <<cal_pix, wav, pix_axis, cal_pc, wav_axis, wav2, RMS2>>
tapVars == <<divX, divY, taps>>
cbVars == <<color_mapper, cbim, minCB, maxCB>>
gridVars == <<globals, docs>>

vars == <<bgVars, cenVars, calVars, tapVars, cbVars, gridVars>>

----------------------------------------------------------------------------
(* Arithmetic helpers *)

Abs(a) == IF a < 0 THEN -a ELSE a
Min(a, b) == IF a < b THEN a ELSE b
Max(a, b) == IF a < b THEN b ELSE a

RECURSIVE GCD(_, _)
GCD(a, b) == IF b = 0 THEN a ELSE GCD(b, a % b)

RatNorm(n, d) ==
    LET s == IF d < 0 THEN -1 ELSE 1
        g == GCD(Abs(n), Abs(d))
    IN  <<(s * n) \div g, (s * d) \div g>>

Rat(n) == <<n, 1>>

RatAdd(p, q) ==
    LET g == GCD(p[2], q[2])
    IN  RatNorm(p[1] * (q[2] \div g) + q[1] * (p[2] \div g), (p[2] \div g) * q[2])

RatNeg(p) == <<-p[1], p[2]>>

RatSub(p, q) == RatAdd(p, RatNeg(q))

RatMul(p, q) ==
    LET g1 == GCD(Abs(p[1]), q[2])
        g2 == GCD(Abs(q[1]), p[2])
    IN  <<(p[1] \div g1) * (q[1] \div g2), (p[2] \div g2) * (q[2] \div g1)>>

RatDiv(p, q) == RatMul(p, RatNorm(q[2], q[1]))

RatLeq(p, q) == p[1] * q[2] <= q[1] * p[2]

\* C cast of a float to an integer dtype: truncation toward zero.
Trunc(p) == IF p[1] < 0 THEN -((-p[1]) \div p[2]) ELSE p[1] \div p[2]

RECURSIVE SumSeq(_)
SumSeq(s) == IF s = <<>> THEN 0 ELSE Head(s) + SumSeq(Tail(s))

RECURSIVE RatSum(_)
RatSum(s) == IF s = <<>> THEN Rat(0) ELSE RatAdd(Head(s), RatSum(Tail(s)))

Pow(b, k) == IF k = 0 THEN 1 ELSE IF k = 1 THEN b ELSE IF k = 2 THEN b * b
             ELSE IF k = 3 THEN b * b * b ELSE IF k = 4 THEN b * b * b * b
             ELSE IF k = 5 THEN b * b * b * b * b ELSE b * b * b * b * b * b

Det3(m) ==
      m[1][1] * (m[2][2] * m[3][3] - m[2][3] * m[3][2])
    - m[1][2] * (m[2][1] * m[3][3] - m[2][3] * m[3][1])
    + m[1][3] * (m[2][1] * m[3][2] - m[2][2] * m[3][1])

----------------------------------------------------------------------------
(* Python / numpy primitives *)

\* a[start:stop] on a sequence of length len: the 0-based indices selected.
\* Negative bounds count from the end; both are clipped to 0..len.
SliceBound(len, k) == IF k < 0 THEN Max(k + len, 0) ELSE Min(k, len)

SliceIdx(len, start, stop) ==
    LET s == SliceBound(len, start)
        e == SliceBound(len, stop)
    IN  [i \in 1..Max(e - s, 0) |-> s + i - 1]

\* np.arange(a, b)
Arange(a, b) == [i \in 1..Max(b - a, 0) |-> a + i - 1]

\* np.median of three numbers
Median3(a, b, c) == Max(Min(a, b), Min(Max(a, b), c))

\* np.polyfit(x, y, 2) followed by np.poly1d: the least-squares parabola,
\* kept as rational coefficients <<c0, c1, c2>> of powers of (x - x0).
\* With three or more distinct abscissae the minimiser is unique and is the
\* solution of the normal equations (solved here by Cramer's rule about
\* x0 = x[1], which leaves the fitted function unchanged).  With two
\* samples the Vandermonde matrix has rank 2 and numpy's lstsq returns the
\* solution of least norm in the column-scaled coordinates
\* (scale_j = sqrt(sum x^(2j))): the interpolating line plus k(x-a)(x-b)
\* with the k that minimises S4 c2^2 + S2 c1^2 + S0 c0^2.
PolyFit2Full(x, y) ==
    LET m == Len(x)
        u == [i \in 1..m |-> x[i] - x[1]]
        S(k) == SumSeq([i \in 1..m |-> Pow(u[i], k)])
        T(k) == SumSeq([i \in 1..m |-> y[i] * Pow(u[i], k)])
        s == <<S(0), S(1), S(2), S(3), S(4)>>
        t == <<T(0), T(1), T(2)>>
        M == <<<<s[1], s[2], s[3]>>, <<s[2], s[3], s[4]>>, <<s[3], s[4], s[5]>>>>
        Repl(j) == [r \in 1..3 |-> [c \in 1..3 |-> IF c = j THEN t[r] ELSE M[r][c]]]
        D == Det3(M)
    IN  [x0 |-> x[1],
         c |-> <<RatNorm(Det3(Repl(1)), D), RatNorm(Det3(Repl(2)), D),
                 RatNorm(Det3(Repl(3)), D)>>]

PolyFit2Rank2(x, y) ==
    LET a == x[1]
        b == x[2]
        b1 == RatNorm(y[2] - y[1], b - a)
        b0 == RatNorm(y[1] * b - y[2] * a, b - a)
        S(k) == Pow(a, k) + Pow(b, k)
        num == RatSub(RatMul(Rat(S(2) * (a + b)), b1), RatMul(Rat(S(0) * a * b), b0))
        den == S(4) + S(2) * (a + b) * (a + b) + S(0) * a * b * a * b
        k == RatDiv(num, Rat(den))
    IN  [x0 |-> 0,
         c |-> <<RatAdd(b0, RatMul(k, Rat(a * b))),
                 RatSub(b1, RatMul(k, Rat(a + b))),
                 k>>]

PolyFit2(x, y) == IF Len(x) >= 3 THEN PolyFit2Full(x, y) ELSE PolyFit2Rank2(x, y)

\* np.poly1d.__call__
PolyVal(f, xv) ==
    LET u == xv - f.x0
    IN  RatAdd(f.c[1], RatAdd(RatMul(f.c[2], Rat(u)), RatMul(f.c[3], Rat(u * u))))

----------------------------------------------------------------------------
(* Each function is modelled by a specification of its own; the variables *)
(* of the functions that are not called stay at these values.              *)

BgIdle ==
    /\ shape = <<0, 0>> /\ dtype = "float" /\ image = <<>> /\ ys = <<0, 0, 0, 0>>
    /\ bg_pc = "idle" /\ col = 0 /\ bkg_array = <<>> /\ colsRead = {}
    /\ column = <<>> /\ bkg = <<>>

CenIdle ==
    /\ spectrum = <<>> /\ pix = <<>> /\ cen_pc = "idle" /\ line = 0 /\ centre = 0
    /\ x_zoom = <<>> /\ y_zoom = <<>> /\ p0 = <<>> /\ pix_refined = <<>>

CalIdle ==
    /\ cal_pix = <<>> /\ wav = <<>> /\ pix_axis = <<>> /\ cal_pc = "idle"
    /\ wav_axis = <<>> /\ wav2 = <<>> /\ RMS2 = <<0, 1>>

TapIdle == divX = <<>> /\ divY = <<>> /\ taps = <<>>

ColourIdle ==
    /\ color_mapper = [low |-> 0, high |-> 0]
    /\ cbim = [start |-> 0, end |-> 0, value |-> <<0, 0>>]
    /\ minCB = <<>> /\ maxCB = <<>>

GridIdle == globals = <<>> /\ docs = <<>>

\* no viewer document has been built
ViewIdle == TapIdle /\ ColourIdle /\ GridIdle

----------------------------------------------------------------------------
(* background *)

Band1Lo == 0
Band1Hi == 63
Band2Lo == 73
Band2Hi == 135

Rows == shape[1]
Cols == shape[2]

\* line 50 without its test of the order
InputOKNoOrder(y) ==
    /\ Band1Lo <= y[1] /\ y[1] <= Band1Hi
    /\ Band1Lo <= y[2] /\ y[2] <= Band1Hi
    /\ Band2Lo <= y[3] /\ y[3] <= Band2Hi
    /\ Band2Lo <= y[4] /\ y[4] <= Band2Hi

\* line 50 with ranges taken from the image's rows
InputOKRelative(y) ==
    /\ y[1] < y[2] /\ y[2] < y[3] /\ y[3] < y[4]
    /\ 0 <= y[1] /\ y[2] <= Rows \div 2
    /\ Rows \div 2 <= y[3] /\ y[4] <= Rows

\* line 50: the guard of the raise, negated
InputOK(y) ==
    /\ y[1] < y[2] /\ y[2] < y[3] /\ y[3] < y[4]
    /\ Band1Lo <= y[1] /\ y[1] <= Band1Hi
    /\ Band1Lo <= y[2] /\ y[2] <= Band1Hi
    /\ Band2Lo <= y[3] /\ y[3] <= Band2Hi
    /\ Band2Lo <= y[4] /\ y[4] <= Band2Hi

\* lines 53-54
n == Min(shape[1], shape[2])
N == Max(shape[1], shape[2])

\* line 56
xSamples == Arange(ys[1], ys[2]) \o Arange(ys[3], ys[4])

\* line 59
IsEdgeColumn(c) == c <= 1 \/ c >= N - 2

\* the columns of image indexed by lines 60 / 63
ColumnsIndexed(c) == IF IsEdgeColumn(c) THEN {c} ELSE {c - 1, c, c + 1}

\* lines 60 / 63: the local `column`, one value per image row
ColumnData(c) ==
    IF IsEdgeColumn(c)
    THEN [r \in 1..Rows |-> image[r - 1][c]]
    ELSE [r \in 1..Rows |-> Median3(image[r - 1][c - 1], image[r - 1][c], image[r - 1][c + 1])]

\* lines 61 / 64: np.concatenate((column[y1:y2], column[y3:y4]))
Samples(colm) ==
    LET i1 == SliceIdx(Len(colm), ys[1], ys[2])
        i2 == SliceIdx(Len(colm), ys[3], ys[4])
    IN  [k \in 1..Len(i1) |-> colm[i1[k] + 1]] \o [k \in 1..Len(i2) |-> colm[i2[k] + 1]]

\* line 69: a value stored into an array of image's dtype
Store(v) == IF dtype = "int" THEN Rat(Trunc(v)) ELSE v

\* lines 50-56
Validate ==
    /\ bg_pc = "call"
    /\ IF ~InputOK(ys)
       THEN /\ bg_pc' = "InputError"
            /\ UNCHANGED <<col, bkg_array>>
       ELSE /\ bg_pc' = "loop"
            /\ col' = 0
            /\ bkg_array' = [r \in 0..Rows - 1 |-> [c \in 0..Cols - 1 |-> Rat(0)]]
    /\ UNCHANGED <<shape, dtype, image, ys, colsRead, column, bkg>>
    /\ UNCHANGED <<cenVars, calVars, tapVars, cbVars, gridVars>>

\* lines 58-69, one iteration of the loop over col
ColumnStep ==
    /\ bg_pc = "loop"
    /\ col < N
    /\ colsRead' = ColumnsIndexed(col)
    /\ IF \E c \in ColumnsIndexed(col) : c >= Cols
       THEN \* image[:, c] with c out of range
            /\ bg_pc' = "IndexError"
            /\ UNCHANGED <<col, bkg_array, column, bkg>>
       ELSE /\ column' = ColumnData(col)
            /\ bkg' = Samples(ColumnData(col))
            /\ IF Len(Samples(ColumnData(col))) # Len(xSamples)
               THEN \* np.polyfit: expected x and y to have same length
                    /\ bg_pc' = "TypeError"
                    /\ UNCHANGED <<col, bkg_array>>
               ELSE LET f == PolyFit2(xSamples, Samples(ColumnData(col)))
                        fit == [i \in 0..n - 1 |-> PolyVal(f, i)]
                    IN  /\ bkg_array' = [r \in 0..Rows - 1 |->
                                          IF r < n
                                          THEN [bkg_array[r] EXCEPT ![col] = Store(fit[r])]
                                          ELSE bkg_array[r]]
                        /\ col' = col + 1
                        /\ UNCHANGED bg_pc
    /\ UNCHANGED <<shape, dtype, image, ys>>
    /\ UNCHANGED <<cenVars, calVars, tapVars, cbVars, gridVars>>

\* line 70
Return ==
    /\ bg_pc = "loop"
    /\ col = N
    /\ bg_pc' = "returned"
    /\ UNCHANGED <<shape, dtype, image, ys, col, bkg_array, colsRead, column, bkg>>
    /\ UNCHANGED <<cenVars, calVars, tapVars, cbVars, gridVars>>

(* Inputs.  A pixel is a polynomial of its row index; a "spike" image adds *)
(* 4 to two sampled rows of column 1 (an edge column) and of column 3 (an  *)
(* interior column), so that the median of three neighbouring columns      *)
(* differs from the column itself.                                         *)
Shapes == {<<74, 74>>, <<75, 76>>, <<140, 5>>, <<136, 3>>, <<60, 80>>, <<80, 1>>}
Kinds == {"const", "quad", "spike"}
Y1s == {-1, 0, 61, 64}
Y2s == {1, 63, 64}
Y3s == {60, 73, 74}
Y4s == {73, 74, 75, 135, 136}

Pixel(kind, r, c) ==
    CASE kind = "const" -> 2
      [] kind = "quad"  -> (r - 60) * (r - 60)
      [] kind = "spike" -> 2 + (IF c \in {1, 3} /\ r \in {61, 73} THEN 4 ELSE 0)

\* The fits the model can evaluate in machine integers: narrow bands next to
\* the gap, or the two-sample bands (0,1,73,74).
Evaluable(y) ==
    \/ y[1] >= 60 /\ y[4] <= 76 /\ (y[2] - y[1]) + (y[4] - y[3]) >= 3
    \/ y = <<0, 1, 73, 74>>

InitBg ==
    /\ shape \in Shapes
    /\ dtype \in {"float", "int"}
    /\ \E kind \in Kinds :
         image = [r \in 0..shape[1] - 1 |-> [c \in 0..shape[2] - 1 |-> Pixel(kind, r, c)]]
    /\ ys \in {y \in Y1s \X Y2s \X Y3s \X Y4s :
                 InputOK(y) /\ shape[1] >= y[4] => Evaluable(y)}
    /\ bg_pc = "call"
    /\ col = 0
    /\ bkg_array = <<>>
    /\ colsRead = {}
    /\ column = <<>>
    /\ bkg = <<>>
    /\ CenIdle
    /\ CalIdle
    /\ ViewIdle

NextBg == Validate \/ ColumnStep \/ Return

SpecBg == InitBg /\ [][NextBg]_vars

(* ---- properties of background ---- *)

Increasing(y) == y[1] < y[2] /\ y[2] < y[3] /\ y[3] < y[4]

AbsoluteRanges(y) ==
    /\ y[1] \in 0..63 /\ y[2] \in 0..63
    /\ y[3] \in 73..135 /\ y[4] \in 73..135

\* band 1 within the first half, band 2 within the second half of the rows
RelativeRanges(y) ==
    /\ 0 <= y[1] /\ y[2] <= Rows \div 2
    /\ Rows \div 2 <= y[3] /\ y[4] <= Rows

BgRaised == bg_pc \in {"IndexError", "TypeError"}

\* the column the last executed iteration worked on
LastCol == IF BgRaised THEN col ELSE col - 1

\* C1: boundaries that are not strictly increasing make the call fail with
\* the input error, with no output array created and no column read or fitted.
C1_UnorderedFailsFirst ==
    (bg_pc # "call" /\ ~Increasing(ys)) =>
        /\ bg_pc = "InputError"
        /\ bkg_array = <<>>
        /\ column = <<>>
        /\ bkg = <<>>
        /\ colsRead = {}

C1_Witness == bg_pc = "InputError" /\ ~Increasing(ys) /\ AbsoluteRanges(ys)

\* C2 (as claimed): boundaries that pass the validation give a call that
\* raises nothing and returns an array of the image's shape whose pixel
\* (r, c) is the value at row r of the parabola fitted for column c.
C2_ReturnsFittedArray ==
    (Increasing(ys) /\ AbsoluteRanges(ys)) =>
        /\ ~BgRaised
        /\ bg_pc = "returned" =>
              /\ DOMAIN bkg_array = 0..Rows - 1
              /\ \A r \in 0..Rows - 1 :
                    /\ DOMAIN bkg_array[r] = 0..Cols - 1
                    /\ \A c \in 0..Cols - 1 :
                          bkg_array[r][c] =
                              PolyVal(PolyFit2(xSamples, Samples(ColumnData(c))), r)

\* C3 (as claimed): the range check is relative to the image's row count.
C3_RelativeCheck ==
    bg_pc # "call" =>
        (bg_pc = "InputError" <=> ~(Increasing(ys) /\ RelativeRanges(ys)))

\* C3 (amended): the range check is absolute, whatever the row count: the
\* input error is raised exactly when the boundaries are not strictly
\* increasing or y1, y2 are not in 0..63 or y3, y4 are not in 73..135.
C3_AbsoluteCheck ==
    bg_pc # "call" =>
        (bg_pc = "InputError" <=> ~(Increasing(ys) /\ AbsoluteRanges(ys)))

\* rejected although ordered and inside the halves of the image's rows
C3_Witness ==
    /\ bg_pc = "InputError"
    /\ Increasing(ys)
    /\ RelativeRanges(ys)

\* every column follows the same polynomial of degree <= 2 in the row index
SamePolynomial ==
    \/ \A r \in 0..Rows - 1 : \A c \in 0..Cols - 1 : image[r][c] = image[0][0]
    \/ \A r \in 0..Rows - 1 : \A c \in 0..Cols - 1 : image[r][c] = (r - 60) * (r - 60)

\* C4 (as claimed): on an image whose columns all follow one polynomial of
\* degree <= 2 (a constant image in particular) the call returns that
\* polynomial at every pixel.
C4_RecoversPolynomial ==
    (Increasing(ys) /\ AbsoluteRanges(ys) /\ SamePolynomial) =>
        /\ ~BgRaised
        /\ bg_pc = "returned" =>
              \A r \in 0..Rows - 1 : \A c \in 0..Cols - 1 :
                  bkg_array[r][c] = Rat(image[r][c])

\* C8 (as claimed): in an image with Cols columns, column c is smoothed with
\* its two neighbours exactly when 2 <= c <= Cols - 3 and used as it is
\* otherwise, no column outside 0..Cols-1 is indexed, and the samples are
\* rows y1..y2-1 and y3..y4-1 of that column data.
C8_EdgePolicy ==
    (bg_pc \in {"loop", "returned", "IndexError", "TypeError"} /\ colsRead # {}) =>
        LET c == LastCol IN
        /\ colsRead \subseteq 0..Cols - 1
        /\ colsRead = IF 2 <= c /\ c <= Cols - 3 THEN {c - 1, c, c + 1} ELSE {c}
        /\ column = [r \in 1..Rows |->
                       IF 2 <= c /\ c <= Cols - 3
                       THEN Median3(image[r - 1][c - 1], image[r - 1][c], image[r - 1][c + 1])
                       ELSE image[r - 1][c]]
        /\ Len(column) >= ys[4]
        /\ bkg = [k \in 1..(ys[2] - ys[1]) |-> column[ys[1] + k]]
                   \o [k \in 1..(ys[4] - ys[3]) |-> column[ys[3] + k]]

----------------------------------------------------------------------------
(* centroid_peak / get_centroid_locations *)

\* line 106: the width get_centroid_locations passes
Width == 5

MaxLines == 2

\* line 103
SpecLen == Len(spectrum)

\* line 89 with x = np.arange(N): the window's sample indices
ZoomIdx(c, w) == SliceIdx(SpecLen, c - w, c + w)

\* line 90
ZoomY(idx) == [k \in 1..Len(idx) |-> spectrum[idx[k] + 1]]

\* One iteration of the loop of get_centroid_locations (lines 105-106): a
\* whole call of centroid_peak (lines 89-92).  The Gaussian fit itself
\* (scipy's curve_fit) is not evaluated: it either fails to converge
\* (RuntimeError) or returns a centre, which the model lets be the guessed
\* sample or one of its two neighbours.
CentroidStep ==
    /\ cen_pc = "loop"
    /\ line < Len(pix)
    /\ LET c == Trunc(pix[line + 1])
           xz == ZoomIdx(c, Width)
           yz == ZoomY(ZoomIdx(c, Width))
       IN  /\ centre' = c
           /\ x_zoom' = xz
           /\ y_zoom' = yz
           /\ IF Len(yz) <= Width
              THEN \* y_zoom[width]: index out of bounds
                   /\ cen_pc' = "IndexError"
                   /\ UNCHANGED <<p0, line, pix_refined>>
              ELSE /\ p0' = <<0, yz[Width + 1], xz[Width + 1], 1>>
                   /\ \/ /\ cen_pc' = "RuntimeError"
                         /\ UNCHANGED <<line, pix_refined>>
                      \/ \E d \in {-1, 0, 1} :
                            /\ pix_refined' = Append(pix_refined, xz[Width + 1] + d)
                            /\ line' = line + 1
                            /\ UNCHANGED cen_pc
    /\ UNCHANGED <<spectrum, pix>>
    /\ UNCHANGED <<bgVars, calVars, tapVars, cbVars, gridVars>>

\* line 107
CentroidReturn ==
    /\ cen_pc = "loop"
    /\ line = Len(pix)
    /\ cen_pc' = "returned"
    /\ UNCHANGED <<spectrum, pix, line, centre, x_zoom, y_zoom, p0, pix_refined>>
    /\ UNCHANGED <<bgVars, calVars, tapVars, cbVars, gridVars>>

Spectra == {[i \in 1..12 |-> 100 + 3 * i], [i \in 1..14 |-> 50 + (i - 7) * (i - 7)]}
PixChoices == {<<0, 1>>, <<3, 1>>, <<5, 1>>, <<11, 2>>, <<7, 1>>, <<9, 1>>, <<11, 1>>, <<13, 1>>}

RECURSIVE SeqsUpTo(_, _)
SeqsUpTo(S, k) ==
    IF k = 0 THEN {<<>>}
    ELSE SeqsUpTo(S, k - 1) \cup {Append(q, v) : q \in SeqsUpTo(S, k - 1), v \in S}

InitCen ==
    /\ spectrum \in Spectra
    /\ pix \in SeqsUpTo(PixChoices, MaxLines)
    /\ cen_pc = "loop"
    /\ line = 0
    /\ centre = 0
    /\ x_zoom = <<>>
    /\ y_zoom = <<>>
    /\ p0 = <<>>
    /\ pix_refined = <<>>
    /\ BgIdle
    /\ CalIdle
    /\ ViewIdle

NextCen == CentroidStep \/ CentroidReturn

SpecCen == InitCen /\ [][NextCen]_vars

(* ---- properties of centroid_peak ---- *)

\* centroid_peak has run at least once
PeakCalled == line > 0 \/ cen_pc \in {"IndexError", "RuntimeError"}

SamplesLeft == Cardinality({k \in 1..Len(x_zoom) : x_zoom[k] < centre})
SamplesRight == Cardinality({k \in 1..Len(x_zoom) : x_zoom[k] > centre})

\* C5 (as claimed): for every centre in 0..N-1 the fit window has as many
\* samples to the left of index centre as to its right, and the initial
\* guess is the sample at index centre.
C5_SymmetricWindow ==
    (PeakCalled /\ centre \in 0..SpecLen - 1) =>
        /\ cen_pc # "IndexError"
        /\ SamplesLeft = SamplesRight
        /\ p0 = <<0, spectrum[centre + 1], centre, 1>>

----------------------------------------------------------------------------
(* calibration *)

MaxLen == 5

Minor(m, i, j) ==
    [r \in 1..3 |-> [c \in 1..3 |->
        m[IF r < i THEN r ELSE r + 1][IF c < j THEN c ELSE c + 1]]]

Det4(m) ==
      m[1][1] * Det3(Minor(m, 1, 1)) - m[1][2] * Det3(Minor(m, 1, 2))
    + m[1][3] * Det3(Minor(m, 1, 3)) - m[1][4] * Det3(Minor(m, 1, 4))

Range(q) == {q[i] : i \in 1..Len(q)}

\* line 120: np.polyfit(pix_refined, wav, 3) on four or more distinct
\* positions: the unique least-squares cubic, from the normal equations,
\* kept as rational coefficients <<c0, c1, c2, c3>> of powers of (x - x0).
PolyFit3(x, y) ==
    LET m == Len(x)
        u == [i \in 1..m |-> x[i] - x[1]]
        S(k) == SumSeq([i \in 1..m |-> Pow(u[i], k)])
        T(k) == SumSeq([i \in 1..m |-> y[i] * Pow(u[i], k)])
        s == <<S(0), S(1), S(2), S(3), S(4), S(5), S(6)>>
        t == <<T(0), T(1), T(2), T(3)>>
        M == <<<<s[1], s[2], s[3], s[4]>>, <<s[2], s[3], s[4], s[5]>>,
               <<s[3], s[4], s[5], s[6]>>, <<s[4], s[5], s[6], s[7]>>>>
        Repl(j) == [r \in 1..4 |-> [c \in 1..4 |-> IF c = j THEN t[r] ELSE M[r][c]]]
        D == Det4(M)
    IN  [x0 |-> x[1],
         c |-> <<RatNorm(Det4(Repl(1)), D), RatNorm(Det4(Repl(2)), D),
                 RatNorm(Det4(Repl(3)), D), RatNorm(Det4(Repl(4)), D)>>]

\* line 121: np.poly1d.__call__
PolyVal3(f, xv) ==
    LET u == xv - f.x0
    IN  RatSum([j \in 1..4 |-> RatMul(f.c[j], Rat(Pow(u, j - 1)))])

\* With fewer than four distinct positions the cubic through the means of
\* the wavelengths given for each position is a least-squares solution, so
\* whichever solution lstsq picks predicts that mean at every fitted position.
GroupMean(x, y, i) ==
    LET same == {j \in 1..Len(x) : x[j] = x[i]}
    IN  RatNorm(SumSeq([j \in 1..Len(x) |-> IF j \in same THEN y[j] ELSE 0]),
                Cardinality(same))

\* line 125
Predicted(x, y) ==
    IF Cardinality(Range(x)) >= 4
    THEN LET f == PolyFit3(x, y) IN [i \in 1..Len(x) |-> PolyVal3(f, x[i])]
    ELSE [i \in 1..Len(x) |-> GroupMean(x, y, i)]

\* line 123; with fewer than four distinct positions the coefficients are
\* lstsq's least-norm choice, which the model does not evaluate.
Axis(x, y, axis) ==
    IF Cardinality(Range(x)) >= 4
    THEN LET f == PolyFit3(x, y) IN [k \in 1..Len(axis) |-> PolyVal3(f, axis[k])]
    ELSE <<"least-norm cubic">>

RatSq(p) == RatMul(p, p)

\* the square of np.sqrt(np.sum((wav2-wav)**2))/len(pix_refined)
MeanSquareOverLen(pred, y) ==
    RatDiv(RatSum([i \in 1..Len(y) |-> RatSq(RatSub(pred[i], Rat(y[i])))]),
           Rat(Len(y) * Len(y)))

\* line 126, squared: np.sum((wav2-wav)**2)/len(pix_refined)
MeanSquare(pred, y) ==
    RatDiv(RatSum([i \in 1..Len(y) |-> RatSq(RatSub(pred[i], Rat(y[i])))]),
           Rat(Len(y)))

\* lines 120-138, the whole call
Calibrate ==
    /\ cal_pc = "call"
    /\ IF Len(cal_pix) = 0 \/ Len(cal_pix) # Len(wav)
       THEN \* np.polyfit: empty x, or x and y of different lengths
            /\ cal_pc' = "TypeError"
            /\ UNCHANGED <<wav_axis, wav2, RMS2>>
       ELSE LET pred == Predicted(cal_pix, wav)
            IN  /\ wav_axis' = Axis(cal_pix, wav, pix_axis)
                /\ wav2' = pred
                /\ RMS2' = MeanSquare(pred, wav)
                /\ cal_pc' = "returned"
    /\ UNCHANGED <<cal_pix, wav, pix_axis>>
    /\ UNCHANGED <<bgVars, cenVars, tapVars, cbVars, gridVars>>

PixVals == 0..4
WavVals == {0, 1}

NonDecreasing(q) == \A i \in 1..Len(q) - 1 : q[i] <= q[i + 1]

InitCal ==
    /\ cal_pix \in {q \in SeqsUpTo(PixVals, MaxLen) : NonDecreasing(q)}
    /\ wav \in {q \in SeqsUpTo(WavVals, MaxLen) : Len(q) \in {Len(cal_pix), Len(cal_pix) + 1}}
    /\ pix_axis = <<0, 1, 2, 3, 4, 5>>
    /\ cal_pc = "call"
    /\ wav_axis = <<>>
    /\ wav2 = <<>>
    /\ RMS2 = <<0, 1>>
    /\ BgIdle
    /\ CenIdle
    /\ ViewIdle

NextCal == Calibrate

SpecCal == InitCal /\ [][NextCal]_vars

(* ---- properties of calibration ---- *)

Residual(i) == RatSub(wav2[i], Rat(wav[i]))

\* C6 (as claimed): every back-predicted wavelength is within the reported
\* RMS of its input wavelength: |wav2[i] - wav[i]| <= RMS, compared as squares.
C6_EachWithinRMS ==
    cal_pc = "returned" =>
        \A i \in 1..Len(wav) : RatLeq(RatSq(Residual(i)), RMS2)

\* C6 (amended): the RMS bounds the residuals in the mean only:
\* sum_i (wav2[i] - wav[i])^2 = len * RMS^2, hence every residual satisfies
\* |wav2[i] - wav[i]| <= sqrt(len) * RMS.
C6_EachWithinRootLenRMS ==
    cal_pc = "returned" =>
        /\ RatSum([i \in 1..Len(wav) |-> RatSq(Residual(i))]) = RatMul(Rat(Len(cal_pix)), RMS2)
        /\ \A i \in 1..Len(wav) :
              RatLeq(RatSq(Residual(i)), RatMul(Rat(Len(cal_pix)), RMS2))

\* five distinct lines, a fit that does not pass through all of them
C6_Witness ==
    /\ cal_pc = "returned"
    /\ Cardinality(Range(cal_pix)) >= 5
    /\ RMS2 # <<0, 1>>

----------------------------------------------------------------------------
(* polyxenaDisplay: the CustomJS of display_event, run on every DoubleTap *)

\* lines 101 and 108: the length above which the oldest entry is dropped
HistoryLimit == 35

MaxTaps == 37
MaxVaried == 2

\* A string is a sequence of tokens: a number's decimal text (its value in
\* hundredths), or one of the literal pieces the script puts together.
Num(h) == [t |-> "num", v |-> h]
Lit(str) == [t |-> str, v |-> 0]
NL == Lit(", \\n")

\* String.prototype.split(sep), for a one-token separator
RECURSIVE SplitTok(_, _)
SplitTok(str, sep) ==
    IF \A k \in 1..Len(str) : str[k] # sep
    THEN <<str>>
    ELSE LET k == CHOOSE i \in 1..Len(str) :
                    str[i] = sep /\ \A j \in 1..i - 1 : str[j] # sep
         IN  <<SubSeq(str, 1, k - 1)>> \o SplitTok(SubSeq(str, k + 1, Len(str)), sep)

\* Array.prototype.join(sep)
RECURSIVE JoinTok(_, _)
JoinTok(parts, sep) ==
    IF Len(parts) = 0 THEN <<>>
    ELSE IF Len(parts) = 1 THEN parts[1]
    ELSE parts[1] \o <<sep>> \o JoinTok(Tail(parts), sep)

\* lines 89-91: Number(val.toFixed(2)) of a coordinate given in thousandths,
\* as hundredths (rounded to the nearest; the taps of the model have no ties)
ToFixed2(m) == IF m < 0 THEN -((-m + 5) \div 10) ELSE (m + 5) \div 10

\* the same with the limit one too high
ShiftIfLongLate(parts) == IF Len(parts) > HistoryLimit + 1 THEN Tail(parts) ELSE parts

\* lines 101-102 and 108-109
ShiftIfLong(parts) == IF Len(parts) > HistoryLimit THEN Tail(parts) ELSE parts

\* lines 99-103 and 106-110: the new text of a Div
Appended(text, val) ==
    JoinTok(ShiftIfLong(SplitTok(text \o (val \o <<NL>>), NL)), NL)

\* lines 86-110
DisplayEvent(ex, ey) ==
    LET args == <<<<Lit("x="), Num(ToFixed2(ex))>>, <<Lit("y="), Num(ToFixed2(ey))>>>>
        xy == JoinTok(args, Lit(", "))
        vals == SplitTok(xy, Lit(", "))
        xval == SplitTok(vals[1], Lit("x="))[2]
        yval == SplitTok(vals[2], Lit("y="))[2]
    IN  /\ divX' = Appended(divX, xval)
        /\ divY' = Appended(divY, yval)

DefaultTap == <<1000, 2000>>
OtherTaps == {<<-12346, 50996>>}

Varied == Cardinality({k \in 1..Len(taps) : taps[k] # DefaultTap})

\* line 129: a DoubleTap on the plot
DoubleTap ==
    /\ Len(taps) < MaxTaps
    /\ \E ev \in {DefaultTap} \cup {o \in OtherTaps : Varied < MaxVaried} :
          /\ DisplayEvent(ev[1], ev[2])
          /\ taps' = Append(taps, ev)
    /\ UNCHANGED <<bgVars, cenVars, calVars, cbVars, gridVars>>

\* lines 125-127: Div(width=50) has the empty text
InitTaps ==
    /\ divX = <<>>
    /\ divY = <<>>
    /\ taps = <<>>
    /\ ColourIdle
    /\ GridIdle
    /\ BgIdle
    /\ CenIdle
    /\ CalIdle

NextTaps == DoubleTap

SpecTaps == InitTaps /\ [][NextTaps]_vars

(* ---- properties of the click history ---- *)

\* the coordinates a Div lists, in order
Listed(text) == SelectSeq(text, LAMBDA tok : tok.t = "num")

Shown == Min(Len(taps), HistoryLimit - 1)

\* C9: after n double taps the X display lists, in tap order, the x values
\* (to two decimals) of the last min(n, 34) taps, and the Y display the y
\* values of the same taps; neither holds more than 34 coordinates.
C9_ClickHistory ==
    /\ Listed(divX) = [k \in 1..Shown |-> Num(ToFixed2(taps[Len(taps) - Shown + k][1]))]
    /\ Listed(divY) = [k \in 1..Shown |-> Num(ToFixed2(taps[Len(taps) - Shown + k][2]))]
    /\ Len(Listed(divX)) = Len(Listed(divY))
    /\ Len(Listed(divX)) <= 34
    /\ divX = JoinTok([k \in 1..Shown |-> <<Listed(divX)[k]>>] \o <<<<>>>>, NL) \/ taps = <<>>

\* more than 35 taps, so entries were dropped, and not all taps were equal
C9_Witness ==
    /\ Len(taps) > HistoryLimit
    /\ Varied >= 2
    /\ taps[1] # DefaultTap

----------------------------------------------------------------------------
(* polyxenaDisplay: the colour range (slider, button, min and max fields) *)

Digits == <<"0", "1", "2", "3", "4", "5", "6", "7", "8", "9">>

IsDigit(ch) == \E d \in 1..10 : Digits[d] = ch

DigitVal(ch) == (CHOOSE d \in 1..10 : Digits[d] = ch) - 1

RECURSIVE DigitsVal(_)
DigitsVal(str) ==
    IF str = <<>> THEN 0
    ELSE 10 * DigitsVal(SubSeq(str, 1, Len(str) - 1)) + DigitVal(str[Len(str)])

\* lines 74-75: float(text), for the texts of the model: an optional sign
\* and decimal digits give the number, anything else raises ValueError.
FloatOK(str) ==
    LET body == IF str # <<>> /\ str[1] \in {"-", "+"} THEN Tail(str) ELSE str
    IN  body # <<>> /\ \A k \in 1..Len(body) : IsDigit(body[k])

Float(str) ==
    IF str[1] = "-" THEN -DigitsVal(Tail(str))
    ELSE IF str[1] = "+" THEN DigitsVal(Tail(str))
    ELSE DigitsVal(str)

\* updateCb without line 71
UpdateCbLowOnly(mapper, value) == [mapper EXCEPT !.low = value[1]]

\* lines 69-71: updateCb, with the slider's value already set
UpdateCb(mapper, value) == [mapper EXCEPT !.low = value[1], !.high = value[2]]

SliderPositions == {-200, 0, 3000, 5000, 8500, 10000}
Texts == {<<"-", "2", "0", "0">>, <<"5", "0", "0", "0">>, <<"0">>,
          <<"9", "0", "0", "0">>, <<"a", "b", "c">>, <<>>}

\* The user moves a handle of the slider (inside its range); line 116 has
\* registered updateCb for the change of value.
SliderChange ==
    /\ \E lo, hi \in SliderPositions :
          /\ cbim.start <= lo /\ lo <= hi /\ hi <= cbim.end
          /\ <<lo, hi>> # cbim.value
          /\ cbim' = [cbim EXCEPT !.value = <<lo, hi>>]
          /\ color_mapper' = UpdateCb(color_mapper, <<lo, hi>>)
    /\ UNCHANGED <<minCB, maxCB>>
    /\ UNCHANGED <<bgVars, cenVars, calVars, tapVars, gridVars>>

\* The user types into the min or the max field.
EditMin ==
    /\ \E txt \in Texts : minCB' = txt
    /\ UNCHANGED <<color_mapper, cbim, maxCB>>
    /\ UNCHANGED <<bgVars, cenVars, calVars, tapVars, gridVars>>

EditMax ==
    /\ \E txt \in Texts : maxCB' = txt
    /\ UNCHANGED <<color_mapper, cbim, minCB>>
    /\ UNCHANGED <<bgVars, cenVars, calVars, tapVars, gridVars>>

\* lines 73-75 and 120: a press of 'Update colorbar' runs updateBcLim; a
\* ValueError of float() ends the callback where it is raised.
UpdateBcLim ==
    /\ cbim' = IF ~FloatOK(minCB) THEN cbim
               ELSE IF ~FloatOK(maxCB) THEN [cbim EXCEPT !.start = Float(minCB)]
               ELSE [cbim EXCEPT !.start = Float(minCB), !.end = Float(maxCB)]
    /\ UNCHANGED <<color_mapper, minCB, maxCB>>
    /\ UNCHANGED <<bgVars, cenVars, calVars, tapVars, gridVars>>

\* lines 51, 115, 118, 119
InitColour ==
    /\ color_mapper = [low |-> 3000, high |-> 8500]
    /\ cbim = [start |-> 0, end |-> 10000, value |-> <<3000, 8500>>]
    /\ minCB = <<"-", "2", "0", "0">>
    /\ maxCB = <<"5", "0", "0", "0">>
    /\ TapIdle
    /\ GridIdle
    /\ BgIdle
    /\ CenIdle
    /\ CalIdle

NextColour == SliderChange \/ EditMin \/ EditMax \/ UpdateBcLim

SpecColour == InitColour /\ [][NextColour]_vars

(* ---- properties of the colour range ---- *)

MapperFollowsSlider ==
    color_mapper.low = cbim.value[1] /\ color_mapper.high = cbim.value[2]

ButtonEffect ==
    UpdateBcLim =>
        /\ cbim'.value = cbim.value
        /\ color_mapper' = color_mapper
        /\ (FloatOK(minCB) /\ FloatOK(maxCB)) =>
              cbim'.start = Float(minCB) /\ cbim'.end = Float(maxCB)

\* C10: the colour mapper's (low, high) is always the slider's value pair
\* (initially (3000, 8500)); a button press sets the slider's start and end
\* to the numbers in the min and max fields and leaves the slider's value
\* and the colour mapper unchanged.
C10_ColourRange ==
    /\ (color_mapper.low = 3000 /\ color_mapper.high = 8500 /\ cbim.value = <<3000, 8500>>)
    /\ [](MapperFollowsSlider)
    /\ [][ButtonEffect]_vars

\* the button moved the slider's range away from its value, and the value
\* was changed afterwards
C10_Witness ==
    /\ cbim.start = -200 /\ cbim.end = 5000
    /\ cbim.value = <<-200, 3000>>
    /\ color_mapper = [low |-> -200, high |-> 3000]

----------------------------------------------------------------------------
(* polyxenaDisplayGrid: the renderers kept in the module's globals *)

MaxDocs == 2
MaxCoords == 2

GridValues == {<<3000, 8500>>, <<2000, 6000>>, <<1500, 10000>>}

\* lines 162-183 and 197: one call of polyxenaDisplayGrid(doc) (one session of
\* one call of polyxenaPlotCentres).  The loop over zip(enumerate(xcoors),
\* ycoors) binds the global names r_1 .. r_min(nx, ny) to this document's
\* renderers, all of which use this document's color_mapper.
DisplayGrid(nx, ny) ==
    /\ Len(docs) < MaxDocs
    /\ LET d == Len(docs) + 1
       IN  /\ globals' = [i \in 1..MaxCoords |-> IF i <= Min(nx, ny) THEN d ELSE globals[i]]
           /\ docs' = Append(docs, [nx |-> nx, ny |-> ny, low |-> 3000, high |-> 8500,
                                     value |-> <<3000, 8500>>])
    /\ UNCHANGED <<bgVars, cenVars, calVars, tapVars, cbVars>>

\* lines 187-190: the documents whose color_mapper updateCb of document d
\* assigns to: eval('r_%i') is looked up in the module's globals, for
\* i = 1 .. len(xcoors) until a name is undefined (NameError).
Reached(d) ==
    {globals[i] : i \in {k \in 1..docs[d].nx : \A j \in 1..k : globals[j] # 0}}

\* The user moves the slider of document d; line 198 has registered updateCb.
GridSliderChange(d) ==
    /\ \E v \in GridValues :
          /\ v # docs[d].value
          /\ docs' = [j \in 1..Len(docs) |->
                        LET withValue == IF j = d THEN [docs[j] EXCEPT !.value = v] ELSE docs[j]
                        IN  IF j \in Reached(d)
                            THEN [withValue EXCEPT !.low = v[1], !.high = v[2]]
                            ELSE withValue]
    /\ UNCHANGED globals
    /\ UNCHANGED <<bgVars, cenVars, calVars, tapVars, cbVars>>

InitGrid ==
    /\ globals = [i \in 1..MaxCoords |-> 0]
    /\ docs = <<>>
    /\ TapIdle
    /\ ColourIdle
    /\ BgIdle
    /\ CenIdle
    /\ CalIdle

NextGrid ==
    \/ \E nx, ny \in 1..MaxCoords : DisplayGrid(nx, ny)
    \/ \E d \in 1..Len(docs) : GridSliderChange(d)

SpecGrid == InitGrid /\ [][NextGrid]_vars

(* ---- properties of the grid viewer ---- *)

\* C7 (as claimed): the slider callback of one document changes the colour
\* mapper of that document only, never that of another call or session.
C7_NoSharedState ==
    [][\A d \in 1..Len(docs) :
          GridSliderChange(d) =>
              \A j \in 1..Len(docs) : j # d =>
                  docs'[j].low = docs[j].low /\ docs'[j].high = docs[j].high]_vars

====
